---- MODULE Spec2Model ----
(***************************************************************************)
(* Model of prepare.py: the telco feature encoder (prep_telco), the        *)
(* stratified three-way partitioner (telco_split, telco_split_xy), the     *)
(* min-max scaler (telco_X_scale) and the mall variant (prep_mall_data).   *)
(*                                                                         *)
(* A DataFrame is modelled either as a sequence of row records (encoder,   *)
(* partitioner) or as a record of columns / index / data (scaler, mall).   *)
(* A cell that holds a number n is the one-element tuple <<n>>; the        *)
(* missing marker (NaN) is the empty tuple.  Raw text cells are strings,   *)
(* except total_charges, which is a sequence of characters so that the     *)
(* numeric parse is computed and not assumed.                              *)
(***************************************************************************)
EXTENDS Integers, Sequences, FiniteSets, TLC

VARIABLES
    \* ---- encoder
    raw,          \* the table get_telco_data() hands to prep_telco
    prepared,     \* what prep_telco returned (None before the call)
    \* ---- partitioner
    df,           \* the prepared table the caller passes to the split functions
    np_random,    \* state of numpy's process-wide generator (np.random)
    split_out,    \* result of the last telco_split(df) call
    xy_out,       \* result of the last telco_split_xy(df, target) call
    split_log,    \* every result telco_split(df) has produced so far
    \* ---- scaler
    X_in,         \* the three feature tables the caller passes to telco_X_scale
    scaled_out,   \* result of the last telco_X_scale call
    \* ---- mall variant
    mall_df,      \* the caller's table passed to prep_mall_data
    mall_out      \* result of the last prep_mall_data call

vars == <<raw, prepared, df, np_random, split_out, xy_out, split_log,
          X_in, scaled_out, mall_df, mall_out>>

encVars   == <<raw, prepared>>
splitVars == <<df, np_random, split_out, xy_out, split_log>>
scaleVars == <<X_in, scaled_out>>
mallVars  == <<mall_df, mall_out>>

None == [status |-> "none"]

\* The one element of a singleton set.  Only({ F(x) : x \in {e} }) is F(e)
\* with e evaluated once and named x, used where a result of the code is
\* read several times.
Only(S) == CHOOSE x \in S : TRUE

\* ------------------------------------------------------------------------
\* Cells
\* ------------------------------------------------------------------------
NaN == <<>>
Num(n) == <<n>>
isnull(c) == c = NaN

\* Series.map(dict): a value that is no key of the dict becomes NaN.
map(cell, dict) == IF cell \in DOMAIN dict THEN Num(dict[cell]) ELSE NaN

\* Series + Series, element-wise: NaN propagates.
add(a, b) == IF isnull(a) \/ isnull(b) THEN NaN ELSE Num(a[1] + b[1])

\* ------------------------------------------------------------------------
\* pd.to_numeric(text, errors='coerce') on a sequence of characters.
\* The parsed number is held in hundredths (100.5 is 10050).
\* ------------------------------------------------------------------------
DigitVal == [c \in {"0", "1", "2", "3", "4", "5", "6", "7", "8", "9"} |->
               CASE c = "0" -> 0 [] c = "1" -> 1 [] c = "2" -> 2 [] c = "3" -> 3
                 [] c = "4" -> 4 [] c = "5" -> 5 [] c = "6" -> 6 [] c = "7" -> 7
                 [] c = "8" -> 8 [] c = "9" -> 9]

IsDigit(c) == c \in DOMAIN DigitVal

RECURSIVE DigitsValue(_)
DigitsValue(s) ==
    IF s = <<>> THEN 0
    ELSE 10 * DigitsValue(SubSeq(s, 1, Len(s) - 1)) + DigitVal[s[Len(s)]]

\* position of the decimal point, 0 when there is none
DotAt(s) == IF \E i \in DOMAIN s : s[i] = "."
            THEN CHOOSE i \in DOMAIN s : s[i] = "." /\ \A j \in 1..(i - 1) : s[j] # "."
            ELSE 0

FracHundredths(f) ==
    CASE Len(f) = 0 -> 0
      [] Len(f) = 1 -> 10 * DigitVal[f[1]]
      [] OTHER      -> 10 * DigitVal[f[1]] + DigitVal[f[2]]

to_numeric(s) ==
    LET d    == DotAt(s)
        ip   == IF d = 0 THEN s ELSE SubSeq(s, 1, d - 1)
        fp   == IF d = 0 THEN <<>> ELSE SubSeq(s, d + 1, Len(s))
        okay == /\ Len(ip) + Len(fp) > 0
                /\ \A i \in DOMAIN ip : IsDigit(ip[i])
                /\ \A i \in DOMAIN fp : IsDigit(fp[i])
    IN  IF okay THEN Num(100 * DigitsValue(ip) + FracHundredths(fp)) ELSE NaN

\* ------------------------------------------------------------------------
\* DataFrame helpers on a table held as a sequence of row records
\* ------------------------------------------------------------------------
\* df.col = df.col.map(dict)
MapCol(t, col, dict) == [i \in DOMAIN t |-> [t[i] EXCEPT ![col] = map(t[i][col], dict)]]

\* df['col'] = series, for a new column or an existing one
Assign(t, col, series) == [i \in DOMAIN t |-> (col :> series[i]) @@ t[i]]

\* df.drop(columns=cols)
DropCols(t, cols) ==
    [i \in DOMAIN t |-> [c \in (DOMAIN t[i]) \ cols |-> t[i][c]]]

\* df.rename(columns=names): names is a function old -> new
Rename(t, names) ==
    [i \in DOMAIN t |->
        LET r    == t[i]
            nn(c) == IF c \in DOMAIN names THEN names[c] ELSE c
        IN  [c \in {nn(o) : o \in DOMAIN r} |->
                r[CHOOSE o \in DOMAIN r : nn(o) = c]]]

AddOnCols == {"online_security", "online_backup", "device_protection",
              "tech_support", "streaming_tv", "streaming_movies"}

AddOnDict == [k \in {"Yes", "No", "No internet service"} |-> IF k = "Yes" THEN 1 ELSE 0]
YesNoDict == [k \in {"Yes", "No"} |-> IF k = "Yes" THEN 1 ELSE 0]
GenderDict == [k \in {"Male", "Female"} |-> IF k = "Male" THEN 1 ELSE 0]
ContractDict == [k \in {1, 2, 3} |-> CASE k = 1 -> 0 [] k = 2 -> 1 [] k = 3 -> 2]
\* the contract re-basing applied to the internet codes as well
InternetDictRebased == [k \in {1, 2, 3} |-> k - 1]
InternetDict == [k \in {3, 1, 2} |-> CASE k = 3 -> 0 [] k = 1 -> 1 [] k = 2 -> 2]

RenameDict == [k \in {"contract_type_id", "phone_service", "internet_service_type_id",
                      "senior_citizen", "dependents"} |->
                 CASE k = "contract_type_id" -> "contract_type"
                   [] k = "phone_service" -> "phone"
                   [] k = "internet_service_type_id" -> "internet_type"
                   [] k = "senior_citizen" -> "senior"
                   [] k = "dependents" -> "depend"]

\* round(tenure / 12, 2), held in hundredths: 25*tenure/3 is never half-way
\* between two integers, so rounding to nearest needs no tie rule.
tenure_yrs(tenure) == Num((50 * tenure + 3) \div 6)

\* df.dropna(): the row filter a slip would write instead
DropAnyNull(t) ==
    SelectSeq(t, LAMBDA r : \A c \in {"contract_type", "phone", "internet_type", "partner",
                                      "depend", "churn", "num_add_ons", "is_male",
                                      "total_charges"} : ~isnull(r[c]))

\* df[~df.total_charges.isnull()]
DropNullTotalCharges(t) == SelectSeq(t, LAMBDA r : ~isnull(r.total_charges))

prep_telco(t) ==
    LET d1  == MapCol(t,  "online_security",   AddOnDict)
        d2  == MapCol(d1, "online_backup",     AddOnDict)
        d3  == MapCol(d2, "device_protection", AddOnDict)
        d4  == MapCol(d3, "tech_support",      AddOnDict)
        d5  == MapCol(d4, "streaming_tv",      AddOnDict)
        d6  == MapCol(d5, "streaming_movies",  AddOnDict)
        d7  == Assign(d6, "num_add_ons",
                 [i \in DOMAIN d6 |->
                    add(add(add(add(add(d6[i].online_security, d6[i].online_backup),
                        d6[i].device_protection), d6[i].tech_support),
                        d6[i].streaming_tv), d6[i].streaming_movies)])
        d8  == DropCols(d7, AddOnCols)
        d9  == MapCol(d8, "phone_service", YesNoDict)
        d10 == Assign(d9, "is_male", [i \in DOMAIN d9 |-> map(d9[i].gender, GenderDict)])
        d11 == DropCols(d10, {"gender"})
        d12 == MapCol(d11, "partner",    YesNoDict)
        d13 == MapCol(d12, "dependents", YesNoDict)
        d14 == MapCol(d13, "churn",      YesNoDict)
        d15 == MapCol(d14, "contract_type_id", ContractDict)
        d16 == MapCol(d15, "internet_service_type_id", InternetDict)
        d17 == Assign(d16, "tenure_yrs", [i \in DOMAIN d16 |-> tenure_yrs(d16[i].tenure)])
        d18 == Rename(d17, RenameDict)
        d19 == Assign(d18, "total_charges",
                 [i \in DOMAIN d18 |-> to_numeric(d18[i].total_charges)])
    IN  DropNullTotalCharges(d19)

\* ------------------------------------------------------------------------
\* numpy's generator.  MT19937 is abstracted to a full-period linear
\* congruential generator on 8 bits; what the model keeps is that a
\* generator is a state, that every draw advances it, and that
\* RandomState(seed) starts from a state fixed by the seed.
\* ------------------------------------------------------------------------
RngStep(s) == (5 * s + 3) % 256

\* one draw from 0..k-1
randint(s, k) == [v |-> (RngStep(s) * k) \div 256, s |-> RngStep(s)]

Swap(x, i, j) == [x EXCEPT ![i] = x[j], ![j] = x[i]]

\* rng.shuffle: Fisher-Yates from the last position down
RECURSIVE Shuffle(_, _, _)
Shuffle(x, i, s) ==
    IF i < 2 THEN [v |-> x, s |-> s]
    ELSE LET d == randint(s, i) IN Shuffle(Swap(x, i, d.v + 1), i - 1, d.s)

\* rng.permutation(x) for a sequence x
permutation(x, s) == Shuffle(x, Len(x), s)

\* rng.choice(inds, size=k, replace=False)
choice(inds, k, s) ==
    LET p == permutation(inds, s) IN [v |-> SubSeq(p.v, 1, k), s |-> p.s]

\* random_state left out: train_test_split falls back to np.random
random_state_unset == NaN

\* random_state=666 in every train_test_split call of the module
random_state == Num(666)

\* sklearn check_random_state: None is numpy's process-wide generator, an
\* int seeds a fresh RandomState
check_random_state(rs, g) ==
    IF isnull(rs) THEN [s |-> g, global |-> TRUE]
    ELSE [s |-> rs[1] % 256, global |-> FALSE]

\* ------------------------------------------------------------------------
\* sklearn.model_selection.train_test_split
\* ------------------------------------------------------------------------
RECURSIVE SumSeq(_)
SumSeq(x) == IF x = <<>> THEN 0 ELSE x[1] + SumSeq(Tail(x))

Min(S) == CHOOSE a \in S : \A b \in S : a <= b
Max(S) == CHOOSE a \in S : \A b \in S : a >= b

RECURSIVE SortedSeq(_)
SortedSeq(S) == IF S = {} THEN <<>> ELSE <<Min(S)>> \o SortedSeq(S \ {Min(S)})

\* np.where(x == v): the positions of x that hold v, ascending
Where(x, v) == SortedSeq({i \in DOMAIN x : x[i] = v})

Take(x, idx) == [k \in DOMAIN idx |-> x[idx[k]]]

\* the loop of _approximate_mode over the remainders, largest first
RECURSIVE AddRemainders(_, _, _, _, _)
AddRemainders(floored, remainder, values, need, s) ==
    IF need = 0 \/ values = {} THEN [v |-> floored, s |-> s]
    ELSE LET value   == Max(values)
             inds    == Where(remainder, value)
             add_now == IF Len(inds) < need THEN Len(inds) ELSE need
             c       == choice(inds, add_now, s)
             picked  == {c.v[k] : k \in DOMAIN c.v}
         IN  AddRemainders([i \in DOMAIN floored |->
                              IF i \in picked THEN floored[i] + 1 ELSE floored[i]],
                           remainder, values \ {value}, need - add_now, c.s)

\* sklearn _approximate_mode(class_counts, n_draws, rng); the remainders are
\* kept as numerators over class_counts.sum()
approximate_mode(class_counts, n_draws, s) ==
    LET total     == SumSeq(class_counts)
        floored   == [i \in DOMAIN class_counts |-> (class_counts[i] * n_draws) \div total]
        remainder == [i \in DOMAIN class_counts |-> (class_counts[i] * n_draws) % total]
        need      == n_draws - SumSeq(floored)
    IN  IF need > 0
        THEN AddRemainders(floored, remainder,
                           {remainder[i] : i \in DOMAIN remainder}, need, s)
        ELSE [v |-> floored, s |-> s]

\* the per-class loop of StratifiedShuffleSplit._iter_indices
RECURSIVE ClassLoop(_, _, _, _, _, _, _)
ClassLoop(i, class_indices, n_i, t_i, train, test, s) ==
    IF i > Len(class_indices) THEN [train |-> train, test |-> test, s |-> s]
    ELSE LET p == permutation(class_indices[i], s)
         IN  ClassLoop(i + 1, class_indices, n_i, t_i,
                       train \o SubSeq(p.v, 1, n_i[i]),
                       test \o SubSeq(p.v, n_i[i] + 1, n_i[i] + t_i[i]),
                       p.s)

ValueError == [status |-> "ValueError"]

\* StratifiedShuffleSplit(test_size=n_test, train_size=n_train).split(X, y)
StratifiedShuffleSplit(y, n_train, n_test, s0) ==
    LET classes       == SortedSeq({y[i] : i \in DOMAIN y})
        class_indices == [c \in DOMAIN classes |-> Where(y, classes[c])]
        class_counts  == [c \in DOMAIN classes |-> Len(class_indices[c])]
    IN  IF \/ \E c \in DOMAIN classes : class_counts[c] < 2
           \/ n_train < Len(classes)
           \/ n_test < Len(classes)
        THEN ValueError
        ELSE Only({ Only({ Only({ Only({ Only({
                 [status |-> "ok", train |-> tr.v, test |-> te.v, s |-> te.s] :
                 te  \in {permutation(l.test, tr.s)} }) :
                 tr  \in {permutation(l.train, l.s)} }) :
                 l   \in {ClassLoop(1, class_indices, n_i.v, t_i.v, <<>>, <<>>, t_i.s)} }) :
                 t_i \in {approximate_mode(
                             [c \in DOMAIN classes |-> class_counts[c] - n_i.v[c]],
                             n_test, n_i.s)} }) :
                 n_i \in {approximate_mode(class_counts, n_train, s0)} })

\* ShuffleSplit(test_size=n_test, train_size=n_train).split(X)
ShuffleSplit(n_samples, n_train, n_test, s0) ==
    LET p == permutation([i \in 1..n_samples |-> i], s0)
    IN  [status |-> "ok",
         test  |-> SubSeq(p.v, 1, n_test),
         train |-> SubSeq(p.v, n_test + 1, n_test + n_train),
         s |-> p.s]

Stratify(y) == [on |-> TRUE, y |-> y]
NoStratify == [on |-> FALSE]

\* train_test_split(t, test_size=pct/100, random_state=rs, stratify=...):
\* n_test = ceil(test_size * n), n_train = n - n_test.  g is np.random's
\* state before the call, .g its state after.
train_test_split(t, pct, rs, stratify, g) ==
    LET n_samples == Len(t)
        n_test    == (pct * n_samples + 99) \div 100
        n_train   == n_samples - n_test
        rng       == check_random_state(rs, g)
    IN  IF n_train = 0 THEN [status |-> "ValueError", g |-> g]
        ELSE Only({ IF cv.status # "ok" THEN [status |-> "ValueError", g |-> g]
                    ELSE [status |-> "ok",
                          train |-> Take(t, cv.train),
                          test  |-> Take(t, cv.test),
                          g     |-> IF rng.global THEN cv.s ELSE g] :
                    cv \in {IF stratify.on
                            THEN StratifiedShuffleSplit(stratify.y, n_train, n_test, rng.s)
                            ELSE ShuffleSplit(n_samples, n_train, n_test, rng.s)} })

\* ------------------------------------------------------------------------
\* telco_split and telco_split_xy
\* ------------------------------------------------------------------------
\* another 0/1 column of the table taken for the label
senior(t) == [i \in DOMAIN t |-> t[i].senior[1]]

\* df.churn as the array of class labels
churn(t) == [i \in DOMAIN t |-> t[i].churn[1]]

\* both splits drawn from the full table
telco_split_resplit(t, g) ==
    Only({ IF a.status # "ok" THEN a
           ELSE Only({ IF b.status # "ok" THEN b
                       ELSE [status |-> "ok", train |-> b.train, validate |-> b.test,
                             test |-> a.test, g |-> b.g] :
                       b \in {train_test_split(t, 30, random_state,
                                               Stratify(churn(t)), a.g)} }) :
           a \in {train_test_split(t, 20, random_state, Stratify(churn(t)), g)} })

telco_split(t, g) ==
    Only({ IF a.status # "ok" THEN a
           ELSE Only({ IF b.status # "ok" THEN b
                       ELSE [status |-> "ok", train |-> b.train, validate |-> b.test,
                             test |-> a.test, g |-> b.g] :
                       b \in {train_test_split(a.train, 30, random_state,
                                               Stratify(churn(a.train)), a.g)} }) :
           a \in {train_test_split(t, 20, random_state, Stratify(churn(t)), g)} })

\* the second split of telco_split_xy taking a quarter for validation
xy_split_data_quarter(t, g) ==
    Only({ IF a.status # "ok" THEN a
           ELSE Only({ IF b.status # "ok" THEN b
                       ELSE [status |-> "ok", train |-> b.train, validate |-> b.test,
                             test |-> a.test, g |-> b.g] :
                       b \in {train_test_split(a.train, 25, random_state,
                                               Stratify(churn(a.train)), a.g)} }) :
           a \in {train_test_split(t, 20, random_state, Stratify(churn(t)), g)} })

\* telco_split_xy, "# split data"
xy_split_data(t, g) ==
    Only({ IF a.status # "ok" THEN a
           ELSE Only({ IF b.status # "ok" THEN b
                       ELSE [status |-> "ok", train |-> b.train, validate |-> b.test,
                             test |-> a.test, g |-> b.g] :
                       b \in {train_test_split(a.train, 30, random_state,
                                               Stratify(churn(a.train)), a.g)} }) :
           a \in {train_test_split(t, 20, random_state, Stratify(churn(t)), g)} })

Columns(t) == IF t = <<>> THEN {} ELSE (DOMAIN t[1]) \ {"customer_id"}

\* part.drop(columns=[target])
drop_target(part, target) == DropCols(part, {target})

\* part[target]: a Series, the target's values under the row identifiers
take_target(part, target) ==
    [i \in DOMAIN part |-> [customer_id |-> part[i].customer_id, value |-> part[i][target]]]

telco_split_xy(t, target, g) ==
    Only({ IF s.status # "ok" THEN s
           ELSE IF target \notin Columns(s.train) THEN [status |-> "KeyError", g |-> s.g]
           ELSE [status |-> "ok",
                 X_train    |-> drop_target(s.train, target),
                 y_train    |-> take_target(s.train, target),
                 X_validate |-> drop_target(s.validate, target),
                 y_validate |-> take_target(s.validate, target),
                 X_test     |-> drop_target(s.test, target),
                 y_test     |-> take_target(s.test, target),
                 g |-> s.g] :
           s \in {xy_split_data(t, g)} })

\* ------------------------------------------------------------------------
\* Encoder: the raw tables get_telco_data() may return
\* ------------------------------------------------------------------------
MaxRows == 3

CustomerIds == <<"0002-ORFBO", "0003-MKNFE", "0004-TLHLJ", "0011-IGKFF", "0013-EXCHZ",
                 "0013-MHZWF", "0013-SMEOE", "0014-BMAQU", "0015-UOCOJ", "0016-QLJIS">>

TotalChargesTexts == { <<>>, <<" ">>, <<" ", " ">>, <<"x">>,
                       <<"2", "0">>, <<"1", "0", "0", ".", "5">> }

BaseRow ==
    [customer_id |-> "", contract_type_id |-> 1, internet_service_type_id |-> 3,
     phone_service |-> "Yes", gender |-> "Male", senior_citizen |-> 0,
     partner |-> "No", dependents |-> "No", churn |-> "No", tenure |-> 5,
     monthly_charges |-> 20,
     online_security |-> "Yes", online_backup |-> "No", device_protection |-> "No",
     tech_support |-> "No", streaming_tv |-> "No", streaming_movies |-> "No",
     total_charges |-> <<"1", "0", "0", ".", "5">>]

\* the values a raw field may hold: its enumeration and one value outside it
FieldValues(c) ==
    CASE c \in AddOnCols -> {"Yes", "No", "No internet service", "Maybe"}
      [] c \in {"phone_service", "partner", "dependents", "churn"} -> {"Yes", "No", "yes"}
      [] c = "gender" -> {"Male", "Female", "Other"}
      [] c = "contract_type_id" -> {1, 2, 3, 4}
      [] c = "internet_service_type_id" -> {1, 2, 3, 0}
      [] c = "senior_citizen" -> {0, 1}
      [] c = "tenure" -> {0, 5, 72}
      [] c = "total_charges" -> TotalChargesTexts
      [] OTHER -> {BaseRow[c]}

\* one-row tables: every combination of in-enumeration add-ons, and every
\* single field of the base row replaced by each of its values
AddOnRows ==
    { [c \in DOMAIN BaseRow |-> IF c \in AddOnCols THEN v[c] ELSE BaseRow[c]] :
        v \in [AddOnCols -> {"Yes", "No", "No internet service"}] }

OneFieldRows ==
    UNION { { [BaseRow EXCEPT ![c] = v] : v \in FieldValues(c) } :
              c \in (DOMAIN BaseRow) \ {"customer_id"} }

\* rows of the longer tables vary in total_charges and gender
NarrowRows ==
    { [BaseRow EXCEPT !.total_charges = tc, !.gender = g] :
        tc \in TotalChargesTexts, g \in {"Male", "Other"} }

\* customer_id is the table's key: row i carries the i-th identifier
Keyed(rows) == [i \in DOMAIN rows |-> [rows[i] EXCEPT !.customer_id = CustomerIds[i]]]

RawTables ==
    { Keyed(<<r>>) : r \in AddOnRows \cup OneFieldRows }
    \cup UNION { { Keyed(t) : t \in [1..n -> NarrowRows] } : n \in 0..MaxRows }

\* ------------------------------------------------------------------------
\* Encoder specification
\* ------------------------------------------------------------------------
InitOthersEnc ==
    /\ df = <<>> /\ np_random = 0 /\ split_out = None /\ xy_out = None
    /\ split_log = {} /\ X_in = None /\ scaled_out = None
    /\ mall_df = None /\ mall_out = None

InitEnc == /\ raw \in RawTables
           /\ prepared = None
           /\ InitOthersEnc

\* prep_telco(): acquire, encode, return
PrepTelco ==
    /\ prepared = None
    /\ prepared' = [status |-> "ok", df |-> prep_telco(raw)]
    /\ UNCHANGED <<raw, splitVars, scaleVars, mallVars>>

NextEnc == PrepTelco

SpecEnc == InitEnc /\ [][NextEnc]_vars

\* ------------------------------------------------------------------------
\* Encoder properties
\* ------------------------------------------------------------------------
Ids(t) == [i \in DOMAIN t |-> t[i].customer_id]

\* text that reads as a decimal number: digits with at most one point
IsNumeral(s) ==
    /\ \E i \in DOMAIN s : IsDigit(s[i])
    /\ \A i \in DOMAIN s : IsDigit(s[i]) \/ s[i] = "."
    /\ Cardinality({i \in DOMAIN s : s[i] = "."}) <= 1

IsBlank(s) == \A i \in DOMAIN s : s[i] = " "

InEnumeration(r) ==
    /\ \A c \in AddOnCols : r[c] \in {"Yes", "No", "No internet service"}
    /\ \A c \in {"phone_service", "partner", "dependents", "churn"} : r[c] \in {"Yes", "No"}
    /\ r.gender \in {"Male", "Female"}
    /\ r.contract_type_id \in {1, 2, 3}
    /\ r.internet_service_type_id \in {1, 2, 3}

EncodedCols == {"contract_type", "phone", "internet_type", "partner", "depend",
                "churn", "num_add_ons", "is_male"}

YesIsOne(v) == Num(IF v = "Yes" THEN 1 ELSE 0)

\* C4: the rows prep_telco returns are exactly the raw rows whose
\* total_charges text reads as a number, under their own identifiers and in
\* their raw order; every kept row holds a parsed number (none is imputed).
C4_DropsExactlyUnparsable ==
    prepared.status = "ok" =>
        /\ Ids(prepared.df)
             = Ids(SelectSeq(raw, LAMBDA r : IsNumeral(r.total_charges)))
        /\ \A j \in DOMAIN prepared.df : ~isnull(prepared.df[j].total_charges)

\* a table with a blank row, a parsable row and a row with an unknown
\* category has been encoded, and the blank row alone is gone
C4_Witness ==
    /\ prepared.status = "ok"
    /\ \E i \in DOMAIN raw : IsBlank(raw[i].total_charges)
    /\ \E i \in DOMAIN raw : IsNumeral(raw[i].total_charges) /\ raw[i].gender = "Other"
    /\ Len(prepared.df) > 0
    /\ Len(prepared.df) < Len(raw)

\* C5: a categorical value outside its enumeration is surfaced as an
\* error: a table prep_telco returns has a numeric code in every encoded
\* field of every row.
C5_UnknownCategorySurfaced ==
    prepared.status = "ok" =>
        \A j \in DOMAIN prepared.df : \A c \in EncodedCols : ~isnull(prepared.df[j][c])

\* C6: a raw row within its enumerations whose total_charges parses is
\* encoded by the fixed mapping table.
C6_FixedMapping ==
    prepared.status = "ok" =>
        \A i \in DOMAIN raw :
            LET r == raw[i] IN
            (InEnumeration(r) /\ IsNumeral(r.total_charges)) =>
                \E j \in DOMAIN prepared.df :
                    LET o == prepared.df[j] IN
                    /\ o.customer_id = r.customer_id
                    /\ o.num_add_ons = Num(Cardinality({c \in AddOnCols : r[c] = "Yes"}))
                    /\ o.num_add_ons[1] \in 0..6
                    /\ (DOMAIN o) \cap (AddOnCols \cup {"gender"}) = {}
                    /\ o.phone = YesIsOne(r.phone_service)
                    /\ o.partner = YesIsOne(r.partner)
                    /\ o.depend = YesIsOne(r.dependents)
                    /\ o.churn = YesIsOne(r.churn)
                    /\ o.is_male = Num(IF r.gender = "Male" THEN 1 ELSE 0)
                    /\ o.contract_type = Num(r.contract_type_id - 1)
                    /\ o.internet_type =
                         Num(CASE r.internet_service_type_id = 1 -> 1
                               [] r.internet_service_type_id = 2 -> 2
                               [] r.internet_service_type_id = 3 -> 0)
                    /\ o.tenure = r.tenure

\* a row with all six add-ons and no internet code 3 -> 0 has been encoded
C6_Witness ==
    /\ prepared.status = "ok"
    /\ \E j \in DOMAIN prepared.df :
          /\ prepared.df[j].num_add_ons = Num(6)
          /\ prepared.df[j].internet_type = Num(0)
          /\ prepared.df[j].contract_type = Num(0)

\* ------------------------------------------------------------------------
\* Partitioner: the prepared tables a caller may pass
\* ------------------------------------------------------------------------
MaxN == 8
MaxCalls == 2

Tenures == <<1, 6, 12, 24, 36, 48, 60, 72, 3, 9>>

\* row i: its key, a free churn label, senior alternating, tenure by position
PreparedTables ==
    UNION { { [i \in 1..n |->
                 [customer_id |-> CustomerIds[i], churn |-> Num(c[i]),
                  senior |-> Num(i % 2), tenure |-> Num(Tenures[i])]] :
              c \in [1..n -> {0, 1}] } : n \in 0..MaxN }

Targets == {"churn", "tenure", "monthly"}

\* what the caller receives: the result without the generator state
Out(r) == [f \in (DOMAIN r) \ {"g"} |-> r[f]]

InitSplit ==
    /\ df \in PreparedTables
    /\ np_random \in {1, 77}
    /\ split_out = None /\ xy_out = None /\ split_log = <<>>
    /\ raw = <<>> /\ prepared = None
    /\ X_in = None /\ scaled_out = None
    /\ mall_df = None /\ mall_out = None

\* train, validate, test = telco_split(df)
TelcoSplit ==
    /\ Len(split_log) < MaxCalls
    /\ \E r \in {telco_split(df, np_random)} :
         /\ split_out' = Out(r)
         /\ split_log' = Append(split_log, [df |-> df, out |-> Out(r)])
         /\ np_random' = r.g
    /\ UNCHANGED <<df, xy_out, encVars, scaleVars, mallVars>>

\* X_train, y_train, ... = telco_split_xy(df, target)
TelcoSplitXY ==
    \E target \in Targets :
        \E r \in {telco_split_xy(df, target, np_random)} :
        /\ xy_out' = [target |-> target, out |-> Out(r)]
        /\ np_random' = r.g
        /\ UNCHANGED <<df, split_out, split_log, encVars, scaleVars, mallVars>>

NextSplit == TelcoSplit \/ TelcoSplitXY

SpecSplit == InitSplit /\ [][NextSplit]_vars

\* ------------------------------------------------------------------------
\* Partitioner properties
\* ------------------------------------------------------------------------
IdSet(t) == {t[i].customer_id : i \in DOMAIN t}

\* a, b, c hold every row identifier of t exactly once between them
Partitions(t, a, b, c) ==
    /\ IdSet(a) \cup IdSet(b) \cup IdSet(c) = IdSet(t)
    /\ IdSet(a) \cap IdSet(b) = {}
    /\ IdSet(a) \cap IdSet(c) = {}
    /\ IdSet(b) \cap IdSet(c) = {}
    /\ Len(a) + Len(b) + Len(c) = Len(t)

\* C1: the three tables telco_split returns, and the three row sets behind
\* the outputs of telco_split_xy, partition the rows of df.
C1_Partition ==
    /\ split_out.status = "ok" =>
          /\ Partitions(df, split_out.train, split_out.validate, split_out.test)
          /\ \A P \in {split_out.train, split_out.validate, split_out.test} :
                \A i \in DOMAIN P : \E k \in DOMAIN df : P[i] = df[k]
    /\ (xy_out # None /\ xy_out.out.status = "ok") =>
          /\ Partitions(df, xy_out.out.X_train, xy_out.out.X_validate, xy_out.out.X_test)
          /\ Partitions(df, xy_out.out.y_train, xy_out.out.y_validate, xy_out.out.y_test)

\* both functions have returned three non-empty parts of an 8-row table
C1_Witness ==
    /\ Len(df) = 8
    /\ split_out.status = "ok"
    /\ Len(split_out.train) > 0 /\ Len(split_out.validate) > 0 /\ Len(split_out.test) > 0
    /\ xy_out # None /\ xy_out.out.status = "ok"

\* C2: two telco_split calls on the same table return the same partitions,
\* rows in the same order, whatever ran in between.
C2_Deterministic ==
    \A i, j \in DOMAIN split_log :
        split_log[i].df = split_log[j].df => split_log[i].out = split_log[j].out

\* telco_split has returned twice, with a telco_split_xy call made as well
C2_Witness ==
    /\ Len(split_log) = 2
    /\ split_log[1].out.status = "ok"
    /\ split_log[2].out.status = "ok"
    /\ xy_out # None

Ones(t) == Cardinality({i \in DOMAIN t : t[i].churn = Num(1)})

Abs(x) == IF x < 0 THEN -x ELSE x

ProjectionOf(part, X, y, target) ==
    /\ Len(X) = Len(part) /\ Len(y) = Len(part)
    /\ \A i \in DOMAIN part :
          /\ DOMAIN X[i] = (DOMAIN part[i]) \ {target}
          /\ \A c \in DOMAIN X[i] : X[i][c] = part[i][c]
          /\ y[i].customer_id = part[i].customer_id
          /\ y[i].value = part[i][target]

C10_WitnessMissing ==
    /\ split_out.status = "ok"
    /\ xy_out # None /\ xy_out.target = "monthly" /\ xy_out.out.status = "KeyError"

\* ------------------------------------------------------------------------
\* Binary floating point, round to nearest, ties to even.  A float is
\* m * 2^e with m = 0 or 2^(Precision-1) <= |m| < 2^Precision.  float64 has
\* a 53-bit significand; the model keeps the rounding rule and narrows the
\* significand so that the exact products stay within 32-bit integers.
\* ------------------------------------------------------------------------
Precision == 5

Zero == [m |-> 0, e |-> 0]
One  == [m |-> 2^(Precision - 1), e |-> -(Precision - 1)]

\* the k with 2^(Precision-1) <= (N / D) * 2^k < 2^Precision, for N, D > 0
RECURSIVE FindShift(_, _, _)
FindShift(N, D, k) ==
    LET Nk == IF k >= 0 THEN N * 2^k ELSE N
        Dk == IF k >= 0 THEN D ELSE D * 2^(-k)
    IN  IF Nk < Dk * 2^(Precision - 1) THEN FindShift(N, D, k + 1)
        ELSE IF Nk >= Dk * 2^Precision THEN FindShift(N, D, k - 1)
        ELSE k

\* sign * (N / D) * 2^E rounded to a float, N >= 0, D > 0
RoundRat(sign, N, D, E) ==
    IF N = 0 THEN Zero
    ELSE LET k  == FindShift(N, D, 0)
             Nk == IF k >= 0 THEN N * 2^k ELSE N
             Dk == IF k >= 0 THEN D ELSE D * 2^(-k)
             q  == Nk \div Dk
             r  == Nk % Dk
             up == 2 * r > Dk \/ (2 * r = Dk /\ q % 2 = 1)
             qq == IF up THEN q + 1 ELSE q
         IN  IF qq = 2^Precision
             THEN [m |-> sign * 2^(Precision - 1), e |-> E - k + 1]
             ELSE [m |-> sign * qq, e |-> E - k]

Sign(x) == IF x < 0 THEN -1 ELSE 1
Mag(x) == IF x < 0 THEN -x ELSE x

\* int -> float64 (check_array converts the table to floats)
fl(n) == RoundRat(Sign(n), Mag(n), 1, 0)

\* a and b on their common exponent: the exact integer a - b is Aligned(a, b)
Aligned(a, b, sgn) ==
    LET emin == IF a.e < b.e THEN a.e ELSE b.e
    IN  a.m * 2^(a.e - emin) + sgn * b.m * 2^(b.e - emin)

fadd(a, b) ==
    LET emin == IF a.e < b.e THEN a.e ELSE b.e
        M    == Aligned(a, b, 1)
    IN  RoundRat(Sign(M), Mag(M), 1, emin)

fsub(a, b) ==
    LET emin == IF a.e < b.e THEN a.e ELSE b.e
        M    == Aligned(a, b, -1)
    IN  RoundRat(Sign(M), Mag(M), 1, emin)

fmul(a, b) == RoundRat(Sign(a.m) * Sign(b.m), Mag(a.m) * Mag(b.m), 1, a.e + b.e)

fdiv(a, b) == RoundRat(Sign(a.m) * Sign(b.m), Mag(a.m), Mag(b.m), a.e - b.e)

fless(a, b) == Aligned(a, b, -1) < 0
fleq(a, b) == Aligned(a, b, -1) <= 0

\* ------------------------------------------------------------------------
\* sklearn MinMaxScaler(copy=True), on a table [columns, index, data]
\* ------------------------------------------------------------------------
Column(X, j) == {X.data[i][j] : i \in DOMAIN X.data}

\* _handle_zeros_in_scale: a zero range is replaced by 1
handle_zeros_in_scale(range) == IF range = Zero THEN One ELSE range

\* MinMaxScaler.fit: per column, scale_ = 1 / (max - min),
\* min_ = 0 - min * scale_
fit(X) ==
    [j \in DOMAIN X.columns |->
        Only({ [scale_ |-> sc,
                min_   |-> fsub(Zero, fmul(fl(Min(Column(X, j))), sc))] :
               sc \in {fdiv(One, handle_zeros_in_scale(
                                    fsub(fl(Max(Column(X, j))), fl(Min(Column(X, j))))))} })]

\* MinMaxScaler.transform: X *= scale_; X += min_
transform(scaler, X) ==
    [i \in DOMAIN X.data |->
        [j \in DOMAIN X.data[i] |->
            fadd(fmul(fl(X.data[i][j]), scaler[j].scale_), scaler[j].min_)]]

\* the names telco_X_scale writes on the columns of its three outputs
ScaledColumns == <<"contract_type", "phone", "internet_type", "senior", "partner",
                   "depend", "tenure", "monthly_charges", "total_charges", "num_add_ons",
                   "is_male", "tenure_yrs">>

\* pd.DataFrame(array).set_index([X.index.values]) with .columns = ScaledColumns
scaled_frame(array, X) == [columns |-> ScaledColumns, index |-> X.index, data |-> array]

telco_X_scale(X_train, X_validate, X_test) ==
    IF \/ Len(X_train.data) = 0 \/ Len(X_validate.data) = 0 \/ Len(X_test.data) = 0
       \/ Len(X_validate.columns) # Len(X_train.columns)
       \/ Len(X_test.columns) # Len(X_train.columns)
       \/ Len(X_train.columns) # Len(ScaledColumns)
    THEN ValueError
    ELSE Only({ [status |-> "ok",
                 X_train_scaled    |-> scaled_frame(transform(scaler, X_train), X_train),
                 X_validate_scaled |-> scaled_frame(transform(scaler, X_validate), X_validate),
                 X_test_scaled     |-> scaled_frame(transform(scaler, X_test), X_test)] :
                scaler \in {fit(X_train)} })

\* ------------------------------------------------------------------------
\* Scaler: the feature tables a caller may pass
\* ------------------------------------------------------------------------
MaxTrainRows == 2

\* the feature columns telco_split_xy leaves for target = "churn", for
\* target = "tenure", and a narrower table
ChurnTargetColumns == ScaledColumns

TenureTargetColumns == <<"contract_type", "phone", "internet_type", "senior", "partner",
                         "depend", "monthly_charges", "total_charges", "churn",
                         "num_add_ons", "is_male", "tenure_yrs">>

NarrowColumns == <<"tenure", "monthly_charges", "total_charges">>

\* a row: a value in the first column, a 0/1 value in the second, 1 elsewhere
FeatureRow(cols, a, b) ==
    [j \in DOMAIN cols |-> IF j = 1 THEN a ELSE IF j = 2 THEN b ELSE 1]

FeatureTables(cols, ids, A, B) ==
    { [columns |-> cols, index |-> ids,
       data |-> [i \in DOMAIN ids |-> FeatureRow(cols, a[i], b[i])]] :
      a \in [DOMAIN ids -> A], b \in [DOMAIN ids -> B] }

InitScale ==
    /\ \E cols \in {ChurnTargetColumns, TenureTargetColumns, NarrowColumns} :
       \E n \in 1..MaxTrainRows :
          X_in \in [train    : FeatureTables(cols, SubSeq(CustomerIds, 1, n),
                                            {1, 2, 5, 6}, {0, 1}),
                    validate : FeatureTables(cols, SubSeq(CustomerIds, 5, 5),
                                            {0, 3, 7}, {1}),
                    test     : FeatureTables(cols, SubSeq(CustomerIds, 6, 6),
                                            {0, 3, 7}, {1})]
    /\ scaled_out = None
    /\ raw = <<>> /\ prepared = None
    /\ df = <<>> /\ np_random = 0 /\ split_out = None /\ xy_out = None
    /\ split_log = <<>>
    /\ mall_df = None /\ mall_out = None

\* X_train_scaled, ... = telco_X_scale(X_train, X_validate, X_test)
TelcoXScale ==
    /\ scaled_out = None
    /\ scaled_out' = telco_X_scale(X_in.train, X_in.validate, X_in.test)
    /\ UNCHANGED <<X_in, encVars, splitVars, mallVars>>

NextScale == TelcoXScale

SpecScale == InitScale /\ [][NextScale]_vars

\* ------------------------------------------------------------------------
\* Scaler properties
\* ------------------------------------------------------------------------
ScaledColumn(S, j) == {S.data[i][j] : i \in DOMAIN S.data}

\* C7: the transform is fitted on X_train alone; every column that is not
\* constant in X_train has scaled training minimum exactly 0, maximum
\* exactly 1 and all values in [0, 1], and a validation or test value
\* outside the training range is mapped outside [0, 1].
C7_TrainRangeExact ==
    scaled_out.status = "ok" =>
        \A j \in DOMAIN X_in.train.columns :
            LET lo == Min(Column(X_in.train, j))
                hi == Max(Column(X_in.train, j))
                T  == ScaledColumn(scaled_out.X_train_scaled, j)
            IN  lo # hi =>
                /\ Zero \in T /\ One \in T
                /\ \A v \in T : fleq(Zero, v) /\ fleq(v, One)
                /\ \A P \in {<<X_in.validate, scaled_out.X_validate_scaled>>,
                              <<X_in.test, scaled_out.X_test_scaled>>} :
                      \A i \in DOMAIN P[1].data :
                          /\ P[1].data[i][j] < lo => fless(P[2].data[i][j], Zero)
                          /\ P[1].data[i][j] > hi => fless(One, P[2].data[i][j])

\* C8: each scaled table carries the column names of its input, position
\* by position, and the row identifiers of its input, row by row.
C8_NamesAndIdsPreserved ==
    scaled_out.status = "ok" =>
        /\ scaled_out.X_train_scaled.columns = X_in.train.columns
        /\ scaled_out.X_validate_scaled.columns = X_in.validate.columns
        /\ scaled_out.X_test_scaled.columns = X_in.test.columns
        /\ scaled_out.X_train_scaled.index = X_in.train.index
        /\ scaled_out.X_validate_scaled.index = X_in.validate.index
        /\ scaled_out.X_test_scaled.index = X_in.test.index

\* ------------------------------------------------------------------------
\* prep_mall_data, on a table held as a sequence of row records.  The
\* result names the table the caller's variable refers to after the call
\* (.caller_df) beside what the call returns.
\* ------------------------------------------------------------------------
\* df['is_female'] = (df.gender == 'Female').astype('int'): item assignment
\* writes the column into the object the caller passed
set_is_female(t) ==
    Assign(t, "is_female",
           [i \in DOMAIN t |-> Num(IF t[i].gender = "Female" THEN 1 ELSE 0)])

prep_mall_data(t, g) ==
    IF t # <<>> /\ "gender" \notin DOMAIN t[1]
    THEN [status |-> "AttributeError", caller_df |-> t, g |-> g]
    ELSE Only({ Only({
           IF a.status # "ok"
           THEN [status |-> "ValueError", caller_df |-> d1, g |-> a.g]
           ELSE Only({
                  IF b.status # "ok"
                  THEN [status |-> "ValueError", caller_df |-> d1, g |-> b.g]
                  ELSE [status |-> "ok", train |-> b.train, test |-> a.test,
                        validate |-> b.test, caller_df |-> d1, g |-> b.g] :
                  b \in {train_test_split(a.train, 15, random_state, NoStratify, a.g)} }) :
           a \in {train_test_split(DropCols(d1, {"gender"}), 15, random_state,
                                   NoStratify, g)} }) :
           d1 \in {set_is_female(t)} })

MaxMallRows == 4

MallTables ==
    UNION { { [i \in 1..n |-> [customer_id |-> CustomerIds[i], gender |-> gd[i],
                               age |-> Num(ag[i])]] :
              gd \in [1..n -> {"Male", "Female"}], ag \in [1..n -> {19, 40}] } :
            n \in 0..MaxMallRows }
    \cup
    UNION { { [i \in 1..n |-> [customer_id |-> CustomerIds[i], age |-> Num(ag[i])]] :
              ag \in [1..n -> {19, 40}] } : n \in 1..MaxMallRows }

InitMall ==
    /\ mall_df \in MallTables
    /\ mall_out = None
    /\ np_random \in {1, 77}
    /\ raw = <<>> /\ prepared = None
    /\ df = <<>> /\ split_out = None /\ xy_out = None /\ split_log = <<>>
    /\ X_in = None /\ scaled_out = None

\* train, test, validate = prep_mall_data(df)
PrepMallData ==
    /\ \E r \in {prep_mall_data(mall_df, np_random)} :
         /\ mall_out' = [f \in (DOMAIN r) \ {"g", "caller_df"} |-> r[f]]
         /\ mall_df' = r.caller_df
         /\ np_random' = r.g
    /\ UNCHANGED <<df, split_out, xy_out, split_log, encVars, scaleVars>>

NextMall == PrepMallData

SpecMall == InitMall /\ [][NextMall]_vars

\* C9: no stage changes a table handed to it: across every call that
\* returns, the tables the caller passed in keep their columns and values.
C9_InputsNotMutated ==
    [][/\ df' = df
       /\ X_in' = X_in
       /\ mall_out'.status = "ok" => mall_df' = mall_df]_vars

====
